---- MODULE Spec2Model ----
(***************************************************************************)
(* Model of PGMT.py, the Publications-Grants Matching Tool: one run of     *)
(* main() in batch mode (uploaded spreadsheet) or manual mode (one grant   *)
(* identifier), with the two OpenAlex lookups fetch_funders_for_grant and  *)
(* query_openalex applied to the HTTP outcomes the environment produces.   *)
(*                                                                         *)
(* Grant identifiers and spreadsheet cells are sequences of one-character  *)
(* strings so that split(',') and strip() are computed, not assumed.       *)
(* JSON objects are functions whose DOMAIN is the set of keys present, so  *)
(* that dict.get(key, default) distinguishes an absent key from a null.    *)
(***************************************************************************)
EXTENDS Naturals, Integers, Sequences, FiniteSets, TLC

VARIABLES
    option,               \* st.radio "Choose Input Method"
    uploaded_file,        \* the uploaded spreadsheet (batch mode)
    grant_id_input,       \* st.text_input "Enter Grant ID" (manual mode)
    df,                   \* result of process_uploaded_file
    pc,                   \* position of the run inside main()
    pos,                  \* batch loop: <<row, index>> of the next grant id
    grant_id,             \* batch loop: the grant id whose funders are iterated
    funders,              \* funders still to fetch (batch) / candidates (manual)
    publication_results,  \* the Result Set
    results_df,           \* rows of the exported table
    errors,               \* number of st.error messages surfaced
    requests,             \* number of HTTP requests issued (requests.get)
    lastCall,             \* the most recent lookup call: arguments, outcome
    resolverLog,          \* history: grant ids passed to fetch_funders_for_grant
    fetchLog,             \* history: query_openalex calls with their results
    resolved              \* history: <<grant id, name, funder id>> resolved

vars == <<option, uploaded_file, grant_id_input, df, pc, pos, grant_id, funders,
          publication_results, results_df, errors, requests, lastCall,
          resolverLog, fetchLog, resolved>>

---------------------------------------------------------------------------
(* Bounds of the explored inputs *)

\* works per API response
MaxWorks == 2
\* grant annotations per work
MaxGrants == 1

---------------------------------------------------------------------------
(* Python string operations on character sequences *)

Whitespace == {" ", "\t", "\n"}

RECURSIVE lstrip(_)
lstrip(s) ==
    IF s # <<>> /\ Head(s) \in Whitespace THEN lstrip(Tail(s)) ELSE s

RECURSIVE rstrip(_)
rstrip(s) ==
    IF s # <<>> /\ s[Len(s)] \in Whitespace
    THEN rstrip(SubSeq(s, 1, Len(s) - 1))
    ELSE s

\* str.strip()
strip(s) == rstrip(lstrip(s))

\* str.split(sep): always at least one part, empty parts are kept
RECURSIVE split(_, _)
split(s, sep) ==
    IF \A i \in 1..Len(s) : s[i] # sep
    THEN <<s>>
    ELSE LET i == CHOOSE k \in 1..Len(s) :
                      s[k] = sep /\ \A j \in 1..(k - 1) : s[j] # sep
         IN  <<SubSeq(s, 1, i - 1)>> \o split(SubSeq(s, i + 1, Len(s)), sep)

\* dict.get(key, default)
Get(d, key, default) == IF key \in DOMAIN d THEN d[key] ELSE default

\* the elements of a sequence
Range(s) == {s[i] : i \in 1..Len(s)}

\* every ordering of a finite set as a list (list(set) has no fixed order)
Orderings(S) ==
    {q \in [1..Cardinality(S) -> S] : \A i, j \in 1..Cardinality(S) : q[i] = q[j] => i = j}

---------------------------------------------------------------------------
(* Spreadsheet cells and process_uploaded_file *)

\* a string value (a cell holding text, a JSON string)
Str(s) == [t |-> "str", v |-> s]
\* an empty cell, read by pandas as NaN
NaN == [t |-> "nan", v |-> <<>>]

\* Series.astype(str): NaN becomes the text "nan"
astype_str(cell) == IF cell.t = "nan" THEN <<"n", "a", "n">> ELSE cell.v

\* the limit of distinct grant ids in one upload
GrantIdLimit == 100

\* line 66: every cell of the GrantID column split on commas
SplitColumn(column) == [r \in 1..Len(column) |-> split(astype_str(column[r]), ",")]

\* line 67: the set of distinct trimmed grant ids
unique_grant_ids(rows) ==
    UNION {{strip(rows[r][k]) : k \in 1..Len(rows[r])} : r \in 1..Len(rows)}

\* process_uploaded_file with the limit test written >= instead of >
process_uploaded_file_AtLimit(file) ==
    IF "GrantID" \notin file.columns
    THEN [none |-> TRUE, rows |-> <<>>, error |-> TRUE]
    ELSE LET rows == SplitColumn(file.GrantID)
         IN  IF Cardinality(unique_grant_ids(rows)) >= GrantIdLimit
             THEN [none |-> TRUE, rows |-> <<>>, error |-> TRUE]
             ELSE [none |-> FALSE, rows |-> rows, error |-> FALSE]

\* lines 57-74; none = the function returned None, error = st.error was called
process_uploaded_file(file) ==
    IF "GrantID" \notin file.columns
    THEN [none |-> TRUE, rows |-> <<>>, error |-> TRUE]
    ELSE LET rows == SplitColumn(file.GrantID)
         IN  IF Cardinality(unique_grant_ids(rows)) > GrantIdLimit
             THEN [none |-> TRUE, rows |-> <<>>, error |-> TRUE]
             ELSE [none |-> FALSE, rows |-> rows, error |-> FALSE]

---------------------------------------------------------------------------
(* HTTP outcomes and JSON values *)

\* requests.get raised (connection error, timeout): there is no response
Raised == [kind |-> "exception"]
Response(status, body) == [kind |-> "response", status |-> status, body |-> body]

\* a body response.json() cannot parse
Unparseable == [t |-> "invalid"]
\* a body that is valid JSON but an array, not an object
JsonArray == [t |-> "array"]
\* a body that is a JSON object with the keys DOMAIN d
JsonObject(d) == [t |-> "object", d |-> d]
\* an object without any key
EmptyDict == [k \in {} |-> TRUE]

\* JSON null, a JSON list, a JSON number (written as its digits)
Null == [t |-> "null", v |-> ""]
JList(items) == [t |-> "list", items |-> items]
Num(digits) == [t |-> "int", v |-> digits]

\* HTTP 200 with a results array
Ok(works) == Response(200, JsonObject([results |-> JList(works)]))

---------------------------------------------------------------------------
(* fetch_funders_for_grant, lines 6-28 *)

\* line 22 without the comparison of the award id
MatchesGrant_AnyAward(grant, gid) ==
    /\ "funder_display_name" \in DOMAIN grant
    /\ grant.funder_display_name # ""

\* line 22: the condition under which an annotation's funder is emitted
MatchesGrant(grant, gid) ==
    /\ "award_id" \in DOMAIN grant
    /\ grant.award_id = gid
    /\ "funder_display_name" \in DOMAIN grant
    /\ grant.funder_display_name # ""

\* lines 21-23: the inner loop over one work's grant annotations;
\* grant["funder"] raises KeyError when the key is absent
RECURSIVE CollectGrants(_, _, _)
CollectGrants(grants, gid, acc) ==
    IF grants = <<>> \/ acc.raised
    THEN acc
    ELSE LET grant == Head(grants)
         IN  IF MatchesGrant(grant, gid)
             THEN IF "funder" \in DOMAIN grant
                  THEN CollectGrants(Tail(grants), gid,
                           [raised |-> FALSE,
                            funders |-> acc.funders \cup
                                {<<grant.funder_display_name, grant.funder>>}])
                  ELSE [raised |-> TRUE, funders |-> acc.funders]
             ELSE CollectGrants(Tail(grants), gid, acc)

\* lines 20-23: the outer loop over the works
RECURSIVE CollectWorks(_, _, _)
CollectWorks(works, gid, acc) ==
    IF works = <<>> \/ acc.raised
    THEN acc
    ELSE CollectWorks(Tail(works), gid,
             CollectGrants(Get(Head(works), "grants", <<>>), gid, acc))

\* lines 15-28: the try block; raised = an exception reached the except clause
ParseFunders(body, gid) ==
    IF body.t # "object"
    THEN [raised |-> TRUE, funders |-> {}]
    ELSE LET works == Get(body.d, "results", JList(<<>>))
         IN  IF works.t # "list"
             THEN [raised |-> TRUE, funders |-> {}]
             ELSE CollectWorks(works.items, gid, [raised |-> FALSE, funders |-> {}])

\* fetch_funders_for_grant without the status test of lines 11-13
fetch_funders_for_grant_NoStatusCheck(gid, outcome) ==
    IF outcome.kind = "exception"
    THEN [raised |-> TRUE, warned |-> FALSE, funders |-> {}]
    ELSE LET parsed == ParseFunders(outcome.body, gid)
         IN  IF parsed.raised
             THEN [raised |-> FALSE, warned |-> TRUE, funders |-> {}]
             ELSE [raised |-> FALSE, warned |-> FALSE, funders |-> parsed.funders]

\* lines 6-28. raised = the call raised past its caller, warned = st.error
\* was called, funders = the set turned into the returned list
fetch_funders_for_grant(gid, outcome) ==
    IF outcome.kind = "exception"
    THEN [raised |-> TRUE, warned |-> FALSE, funders |-> {}]
    ELSE IF outcome.status # 200
    THEN [raised |-> FALSE, warned |-> TRUE, funders |-> {}]
    ELSE LET parsed == ParseFunders(outcome.body, gid)
         IN  IF parsed.raised
             THEN [raised |-> FALSE, warned |-> TRUE, funders |-> {}]
             ELSE [raised |-> FALSE, warned |-> FALSE, funders |-> parsed.funders]

---------------------------------------------------------------------------
(* query_openalex, lines 30-55 *)

\* str.join
RECURSIVE Join(_, _)
Join(parts, sep) ==
    IF parts = <<>> THEN ""
    ELSE IF Len(parts) = 1 THEN Head(parts)
    ELSE Head(parts) \o sep \o Join(Tail(parts), sep)

\* line 46: the author display names in response order
AuthorNames(pub) ==
    LET authorships == Get(pub, "authorships", <<>>)
    IN  [i \in 1..Len(authorships) |->
            Get(Get(authorships[i], "author", EmptyDict), "display_name", "Unknown")]

\* line 49: the set of institution display names over all authorships
InstitutionNames(pub) ==
    LET authorships == Get(pub, "authorships", <<>>)
    IN  UNION {{Get(inst, "display_name", "Unknown") :
                    inst \in Range(Get(authorships[i], "institutions", <<>>))} :
               i \in 1..Len(authorships)}

\* line 47 taking the funder name from the work's first grant annotation
ProjectWork_ApiFunder(pub, funder_name) ==
    [doi                 |-> Get(pub, "doi", Str("N/A")),
     title               |-> Get(pub, "title", Str("Unknown Title")),
     authors             |-> Join(AuthorNames(pub), ", "),
     funder_display_name |-> IF Get(pub, "grants", <<>>) # <<>>
                              THEN pub.grants[1].funder_display_name
                              ELSE funder_name,
     publication_year    |-> Get(pub, "publication_year", Str("Unknown")),
     institutions        |-> Join(CHOOSE q \in Orderings(InstitutionNames(pub)) : TRUE, ", ")]

\* lines 43-50: one work projected into a Publication Record; the set of
\* institutions is joined in an order the language leaves open
ProjectWork(pub, funder_name) ==
    [doi                 |-> Get(pub, "doi", Str("N/A")),
     title               |-> Get(pub, "title", Str("Unknown Title")),
     authors             |-> Join(AuthorNames(pub), ", "),
     funder_display_name |-> funder_name,
     publication_year    |-> Get(pub, "publication_year", Str("Unknown")),
     institutions        |-> Join(CHOOSE q \in Orderings(InstitutionNames(pub)) : TRUE, ", ")]

\* lines 39-55: the try block
ParsePublications(body, funder_name) ==
    IF body.t # "object"
    THEN [raised |-> TRUE, publications |-> <<>>]
    ELSE LET works == Get(body.d, "results", JList(<<>>))
         IN  IF works.t # "list"
             THEN [raised |-> TRUE, publications |-> <<>>]
             ELSE [raised |-> FALSE,
                   publications |-> [i \in 1..Len(works.items) |->
                                        ProjectWork(works.items[i], funder_name)]]

\* lines 30-55. The grant id and the funder id only build the URL.
query_openalex(gid, funder_id, funder_name, outcome) ==
    IF outcome.kind = "exception"
    THEN [raised |-> TRUE, warned |-> FALSE, publications |-> <<>>]
    ELSE IF outcome.status # 200
    THEN [raised |-> FALSE, warned |-> TRUE, publications |-> <<>>]
    ELSE LET parsed == ParsePublications(outcome.body, funder_name)
         IN  IF parsed.raised
             THEN [raised |-> FALSE, warned |-> TRUE, publications |-> <<>>]
             ELSE [raised |-> FALSE, warned |-> FALSE,
                   publications |-> parsed.publications]

---------------------------------------------------------------------------
(* The inputs of a run: spreadsheets, manual inputs, HTTP outcomes *)

G1 == <<"G", "1">>
G2 == <<"G", "2">>
G3 == <<"G", "3">>

Digits == <<"0", "1", "2", "3", "4", "5", "6", "7", "8", "9">>

\* the k-th generated grant id: "G000", "G001", ...
IdOf(k) ==
    <<"G", Digits[(k \div 100) + 1], Digits[((k \div 10) % 10) + 1], Digits[(k % 10) + 1]>>

Sheet(cells) == [columns |-> {"GrantID", "Title"}, GrantID |-> cells]

\* a spreadsheet of n rows, each holding one distinct grant id
Big(n) == Sheet([i \in 1..n |-> Str(IdOf(i))])

\* no file: the manual mode never reads it
NoFile == [columns |-> {}, GrantID |-> <<>>]

Datasets ==
    { [columns |-> {"Title"}, GrantID |-> <<>>],
      Sheet(<<>>),
      \* "G1, G2,G1" and "G3"
      Sheet(<<Str(<<"G", "1", ",", " ", "G", "2", ",", "G", "1">>), Str(G3)>>),
      \* "G1,,G2"
      Sheet(<<Str(<<"G", "1", ",", ",", "G", "2">>)>>),
      \* "G1," and an empty cell
      Sheet(<<Str(<<"G", "1", ",">>), NaN>>),
      \* " G1 "
      Sheet(<<Str(<<" ", "G", "1", " ">>)>>),
      Big(GrantIdLimit),
      Big(GrantIdLimit + 1) }

ManualInputs == { <<>>, <<" ", " ">>, G1, <<" ", "G", "1", "\t">>, G2 }

\* the grant ids the bibliographic API holds works for
KnownIds == {G1}

Grant(award, name, funder) ==
    [award_id |-> award, funder_display_name |-> name, funder |-> funder]

\* the outcomes of the Funder Resolver's request for grant id gid
ResolverOutcomes(gid) ==
    IF gid \in KnownIds
    THEN { Raised,
           Response(404, Unparseable),
           Response(200, Unparseable),
           Ok(<<>>),
           Ok(<<[grants |-> <<Grant(gid, "NSF", "F1"), Grant(G3, "DFG", "F4")>>]>>),
           Ok(<<[grants |-> <<Grant(gid, "NSF", "F1")>>],
                [grants |-> <<Grant(gid, "NSF", "F2"), Grant(gid, "NSF", "F1")>>]>>),
           Ok(<<[grants |-> <<Grant(gid, "ERC", "F3")>>],
                [grants |-> <<[award_id |-> gid, funder_display_name |-> "NSF"]>>]>>) }
    ELSE { Raised, Response(404, Unparseable), Ok(<<>>) }

FullWork ==
    [doi |-> Str("https://doi.org/10.1/a"),
     title |-> Str("Paper A"),
     publication_year |-> Num("2021"),
     authorships |->
        << [author |-> [display_name |-> "Ada"],
            institutions |-> <<[display_name |-> "Aalborg University"]>>],
           [author |-> [display_name |-> "Bo"],
            institutions |-> <<[display_name |-> "Aalborg University"]>>] >>,
     grants |-> <<Grant(G1, "Other Funder", "F9")>>]

NullDoiWork ==
    [doi |-> Null, title |-> Str("Paper B"), publication_year |-> Num("2020")]

BareWork == [authorships |-> <<EmptyDict>>]

\* the outcomes of the Publication Fetcher's request
FetcherOutcomes ==
    { Raised,
      Response(500, Unparseable),
      Response(200, JsonArray),
      Ok(<<>>),
      Ok(<<FullWork>>),
      Ok(<<NullDoiWork, BareWork>>) }

---------------------------------------------------------------------------
(* main(), lines 76-186 *)

NoCall ==
    [fn |-> "none", grant_id |-> <<>>, funder_id |-> "", funder_name |-> "",
     outcome |-> Raised, done |-> FALSE, raised |-> FALSE, warned |-> FALSE,
     result |-> <<>>, nreq |-> 0]

\* a finished call of fetch_funders_for_grant
ResolverCall(gid, outcome, r, list, nreq) ==
    [fn |-> "fetch_funders_for_grant", grant_id |-> gid, funder_id |-> "",
     funder_name |-> "", outcome |-> outcome, done |-> TRUE, raised |-> r.raised,
     warned |-> r.warned, result |-> list, nreq |-> nreq]

\* a finished call of query_openalex
FetcherCall(gid, fid, fname, outcome, r, nreq) ==
    [fn |-> "query_openalex", grant_id |-> gid, funder_id |-> fid,
     funder_name |-> fname, outcome |-> outcome, done |-> TRUE, raised |-> r.raised,
     warned |-> r.warned, result |-> r.publications, nreq |-> nreq]

Bit(b) == IF b THEN 1 ELSE 0

Init ==
    /\ option \in {"Upload Excel File", "Enter Grant ID Manually"}
    /\ IF option = "Upload Excel File"
       THEN uploaded_file \in Datasets /\ grant_id_input = <<>>
       ELSE uploaded_file = NoFile /\ grant_id_input \in ManualInputs
    /\ df = [none |-> TRUE, rows |-> <<>>]
    /\ pc = "start"
    /\ pos = <<1, 1>>
    /\ grant_id = <<>>
    /\ funders = <<>>
    /\ publication_results = <<>>
    /\ results_df = <<>>
    /\ errors = 0
    /\ requests = 0
    /\ lastCall = NoCall
    /\ resolverLog = <<>>
    /\ fetchLog = <<>>
    /\ resolved = {}

\* lines 113-120: the upload is validated
ProcessUpload ==
    /\ pc = "start"
    /\ option = "Upload Excel File"
    /\ LET r == process_uploaded_file(uploaded_file)
       IN  /\ df' = [none |-> r.none, rows |-> r.rows]
           /\ errors' = errors + Bit(r.error)
           /\ pc' = IF r.none THEN "rejected" ELSE "ready"
    /\ UNCHANGED <<option, uploaded_file, grant_id_input, pos, grant_id, funders,
                   publication_results, results_df, requests, lastCall,
                   resolverLog, fetchLog, resolved>>

\* lines 122-125: "Fetch Publications from OpenAlex" is clicked
ClickFetch ==
    /\ pc = "ready"
    /\ pc' = "loop"
    /\ pos' = <<1, 1>>
    /\ funders' = <<>>
    /\ UNCHANGED <<option, uploaded_file, grant_id_input, df, grant_id,
                   publication_results, results_df, errors, requests, lastCall,
                   resolverLog, fetchLog, resolved>>

\* line 122: the button is not clicked; the run goes on to line 163
SkipFetch ==
    /\ pc = "ready"
    /\ pc' = "output"
    /\ UNCHANGED <<option, uploaded_file, grant_id_input, df, pos, grant_id, funders,
                   publication_results, results_df, errors, requests, lastCall,
                   resolverLog, fetchLog, resolved>>

\* lines 127-128: the position after pos in the nested row / grant id loops
NextPos(rows, p) ==
    IF p[2] < Len(rows[p[1]]) THEN <<p[1], p[2] + 1>> ELSE <<p[1] + 1, 1>>

\* lines 133-138 without the test "if publications"
AppendResult_Always(results, gid, funder_name, publications) ==
    Append(results, [GrantID |-> gid, Funder |-> funder_name,
                     Publications |-> publications])

\* lines 133-138 and 156-161: a non-empty fetch result is appended
AppendResult(results, gid, funder_name, publications) ==
    IF publications # <<>>
    THEN Append(results, [GrantID |-> gid, Funder |-> funder_name,
                          Publications |-> publications])
    ELSE results

LogFetch(gid, fid, fname, r) ==
    Append(fetchLog, [grant_id |-> gid, funder_id |-> fid, funder_name |-> fname,
                      result |-> r.publications, failed |-> r.raised \/ r.warned])

\* lines 127-129: the next grant id of the sheet is resolved
BatchResolve ==
    /\ pc = "loop"
    /\ funders = <<>>
    /\ pos[1] <= Len(df.rows)
    /\ LET gid == df.rows[pos[1]][pos[2]]
           arg == strip(gid)
       IN  \E outcome \in ResolverOutcomes(arg) :
             LET r == fetch_funders_for_grant(arg, outcome)
             IN  \E list \in Orderings(r.funders) :
                   /\ requests' = requests + 1
                   /\ errors' = errors + Bit(r.warned)
                   /\ lastCall' = ResolverCall(arg, outcome, r, list, 1)
                   /\ resolverLog' = Append(resolverLog, arg)
                   /\ resolved' = resolved \cup {<<arg, p[1], p[2]>> : p \in r.funders}
                   /\ IF r.raised
                      THEN pc' = "uncaught" /\ UNCHANGED <<pos, grant_id, funders>>
                      ELSE /\ pc' = "loop"
                           /\ grant_id' = gid
                           /\ funders' = list
                           /\ pos' = NextPos(df.rows, pos)
    /\ UNCHANGED <<option, uploaded_file, grant_id_input, df, publication_results,
                   results_df, fetchLog>>

\* lines 130-142: the publications of the next funder of the grant id
BatchFetch ==
    /\ pc = "loop"
    /\ funders # <<>>
    /\ LET funder_name == Head(funders)[1]
           funder_id == Head(funders)[2]
           arg == strip(grant_id)
       IN  \E outcome \in FetcherOutcomes :
             LET r == query_openalex(arg, funder_id, funder_name, outcome)
             IN  /\ requests' = requests + 1
                 /\ errors' = errors + Bit(r.warned)
                 /\ lastCall' = FetcherCall(arg, funder_id, funder_name, outcome, r, 1)
                 /\ fetchLog' = LogFetch(arg, funder_id, funder_name, r)
                 /\ IF r.raised
                    THEN pc' = "uncaught" /\ UNCHANGED <<funders, publication_results>>
                    ELSE /\ pc' = "loop"
                         /\ funders' = Tail(funders)
                         /\ publication_results' =
                               AppendResult(publication_results, grant_id,
                                            funder_name, r.publications)
    /\ UNCHANGED <<option, uploaded_file, grant_id_input, df, pos, grant_id,
                   results_df, resolverLog, resolved>>

\* line 144: every row is done
BatchEnd ==
    /\ pc = "loop"
    /\ funders = <<>>
    /\ pos[1] > Len(df.rows)
    /\ pc' = "output"
    /\ UNCHANGED <<option, uploaded_file, grant_id_input, df, pos, grant_id, funders,
                   publication_results, results_df, errors, requests, lastCall,
                   resolverLog, fetchLog, resolved>>

\* lines 147-150: the funders of the entered grant id
ManualResolve ==
    /\ pc = "start"
    /\ option = "Enter Grant ID Manually"
    /\ IF grant_id_input = <<>>
       THEN /\ funders' = <<>>
            /\ pc' = "output"
            /\ UNCHANGED <<errors, requests, lastCall, resolverLog, resolved>>
       ELSE LET arg == strip(grant_id_input)
            IN  \E outcome \in ResolverOutcomes(arg) :
                  LET r == fetch_funders_for_grant(arg, outcome)
                  IN  \E list \in Orderings(r.funders) :
                        /\ requests' = requests + 1
                        /\ errors' = errors + Bit(r.warned)
                        /\ lastCall' = ResolverCall(arg, outcome, r, list, 1)
                        /\ resolverLog' = Append(resolverLog, arg)
                        /\ resolved' = resolved \cup
                                         {<<arg, p[1], p[2]>> : p \in r.funders}
                        /\ funders' = list
                        /\ pc' = IF r.raised THEN "uncaught"
                                 ELSE IF list = <<>> THEN "output" ELSE "select"
    /\ UNCHANGED <<option, uploaded_file, grant_id_input, df, pos, grant_id,
                   publication_results, results_df, fetchLog>>

\* line 151: the options of the "Select Funder" radio
RadioOptions(candidates) == {candidates[i][1] : i \in 1..Len(candidates)}

\* line 152: the id of the first candidate whose name is the selection
SelectedFunderId(candidates, funder_selection) ==
    LET i == CHOOSE k \in 1..Len(candidates) :
                 /\ candidates[k][1] = funder_selection
                 /\ \A j \in 1..(k - 1) : candidates[j][1] # funder_selection
    IN  candidates[i][2]

\* lines 151-161: a funder is selected and "Fetch Publications" is clicked
ManualFetch ==
    /\ pc = "select"
    /\ \E funder_selection \in RadioOptions(funders) :
         LET funder_id == SelectedFunderId(funders, funder_selection)
             arg == strip(grant_id_input)
         IN  \E outcome \in FetcherOutcomes :
               LET r == query_openalex(arg, funder_id, funder_selection, outcome)
               IN  /\ requests' = requests + 1
                   /\ errors' = errors + Bit(r.warned)
                   /\ lastCall' = FetcherCall(arg, funder_id, funder_selection,
                                              outcome, r, 1)
                   /\ fetchLog' = LogFetch(arg, funder_id, funder_selection, r)
                   /\ IF r.raised
                      THEN pc' = "uncaught" /\ UNCHANGED publication_results
                      ELSE /\ pc' = "output"
                           /\ publication_results' =
                                 AppendResult(publication_results, grant_id_input,
                                              funder_selection, r.publications)
    /\ UNCHANGED <<option, uploaded_file, grant_id_input, df, pos, grant_id, funders,
                   results_df, resolverLog, resolved>>

\* line 154: the button is not clicked
ManualNoFetch ==
    /\ pc = "select"
    /\ pc' = "output"
    /\ UNCHANGED <<option, uploaded_file, grant_id_input, df, pos, grant_id, funders,
                   publication_results, results_df, errors, requests, lastCall,
                   resolverLog, fetchLog, resolved>>

\* lines 164-167: the Publication Records of every entry, in order
RECURSIVE Rows(_)
Rows(results) ==
    IF results = <<>> THEN <<>>
    ELSE Head(results).Publications \o Rows(Tail(results))

\* line 182: pub['doi'].replace raises unless the doi is a string
RenderRaises(results) ==
    \E i \in 1..Len(results) :
        \E k \in 1..Len(results[i].Publications) :
            results[i].Publications[k].doi.t # "str"

\* lines 163-186: the table is exported, then every entry is rendered
Output ==
    /\ pc = "output"
    /\ results_df' = Rows(publication_results)
    /\ pc' = IF RenderRaises(publication_results) THEN "render_error" ELSE "done"
    /\ UNCHANGED <<option, uploaded_file, grant_id_input, df, pos, grant_id, funders,
                   publication_results, errors, requests, lastCall,
                   resolverLog, fetchLog, resolved>>

Next ==
    \/ ProcessUpload
    \/ ClickFetch
    \/ SkipFetch
    \/ BatchResolve
    \/ BatchFetch
    \/ BatchEnd
    \/ ManualResolve
    \/ ManualFetch
    \/ ManualNoFetch
    \/ Output

Spec == Init /\ [][Next]_vars

---------------------------------------------------------------------------
(* The two lookups on their own: one call on one HTTP outcome *)

\* every sequence over S of length at most n
BoundedSeq(S, n) == UNION {[1..k -> S] : k \in 0..n}

\* grant annotations a work may carry
Annotations ==
    { Grant(G1, "NSF", "F1"),
      Grant(G1, "NSF", "F2"),
      Grant(G1, "ERC", "F1"),
      Grant(G2, "DFG", "F4"),
      Grant(G1, "", "F5"),
      [award_id |-> G1, funder_display_name |-> "NSF"],
      [award_id |-> G1, funder |-> "F6"] }

ResolverWorks ==
    {EmptyDict} \cup {[grants |-> q] : q \in BoundedSeq(Annotations, MaxGrants)}

FetcherWorks == {FullWork, NullDoiWork, BareWork, EmptyDict}

\* the response bodies over a set of works
Bodies(works) ==
    {Unparseable, JsonArray, JsonObject(EmptyDict), JsonObject([results |-> Null])}
        \cup {JsonObject([results |-> JList(q)]) : q \in BoundedSeq(works, MaxWorks)}

FailureBodies(works) ==
    {Unparseable} \cup {JsonObject([results |-> JList(<<w>>)]) : w \in works}

\* the HTTP outcomes over a set of works
Outcomes(works) ==
    {Raised}
        \cup {Response(200, b) : b \in Bodies(works)}
        \cup {Response(status, b) : status \in {404, 500}, b \in FailureBodies(works)}

PendingCalls ==
    {[NoCall EXCEPT !.fn = "fetch_funders_for_grant", !.grant_id = G1, !.outcome = o] :
        o \in Outcomes(ResolverWorks)}
    \cup
    {[NoCall EXCEPT !.fn = "query_openalex", !.grant_id = G1, !.funder_id = "F1",
                    !.funder_name = "NSF", !.outcome = o] :
        o \in Outcomes(FetcherWorks)}

InitCalls ==
    /\ option = "Enter Grant ID Manually"
    /\ uploaded_file = NoFile
    /\ grant_id_input = G1
    /\ df = [none |-> TRUE, rows |-> <<>>]
    /\ pc = "call"
    /\ pos = <<1, 1>>
    /\ grant_id = <<>>
    /\ funders = <<>>
    /\ publication_results = <<>>
    /\ results_df = <<>>
    /\ errors = 0
    /\ requests = 0
    /\ lastCall \in PendingCalls
    /\ resolverLog = <<>>
    /\ fetchLog = <<>>
    /\ resolved = {}

\* lines 6-28 applied to the pending outcome
CallResolver ==
    /\ pc = "call"
    /\ lastCall.fn = "fetch_funders_for_grant"
    /\ LET r == fetch_funders_for_grant(lastCall.grant_id, lastCall.outcome)
       IN  \E list \in Orderings(r.funders) :
             /\ requests' = requests + 1
             /\ errors' = errors + Bit(r.warned)
             /\ lastCall' = ResolverCall(lastCall.grant_id, lastCall.outcome, r, list, 1)
             /\ funders' = list
             /\ pc' = IF r.raised THEN "uncaught" ELSE "returned"
    /\ UNCHANGED <<option, uploaded_file, grant_id_input, df, pos, grant_id,
                   publication_results, results_df, resolverLog, fetchLog, resolved>>

\* lines 30-55 applied to the pending outcome
CallFetcher ==
    /\ pc = "call"
    /\ lastCall.fn = "query_openalex"
    /\ LET r == query_openalex(lastCall.grant_id, lastCall.funder_id,
                               lastCall.funder_name, lastCall.outcome)
       IN  /\ requests' = requests + 1
           /\ errors' = errors + Bit(r.warned)
           /\ lastCall' = FetcherCall(lastCall.grant_id, lastCall.funder_id,
                                      lastCall.funder_name, lastCall.outcome, r, 1)
           /\ pc' = IF r.raised THEN "uncaught" ELSE "returned"
    /\ UNCHANGED <<option, uploaded_file, grant_id_input, df, pos, grant_id, funders,
                   publication_results, results_df, resolverLog, fetchLog, resolved>>

NextCalls ==
    \/ CallResolver
    \/ CallFetcher

SpecCalls == InitCalls /\ [][NextCalls]_vars

---------------------------------------------------------------------------
(* Properties *)

Batch == option = "Upload Excel File"
Manual == option = "Enter Grant ID Manually"

\* the fetch calls that returned a non-empty list, in call order
ReturnedRecords(c) == c.result # <<>>
NonEmptyFetches == SelectSeq(fetchLog, ReturnedRecords)

\* the grant ids of the sheet in row order, trimmed
RECURSIVE FlatIds(_)
FlatIds(rows) ==
    IF rows = <<>> THEN <<>>
    ELSE [k \in 1..Len(Head(rows)) |-> strip(Head(rows)[k])] \o FlatIds(Tail(rows))

RECURSIVE SumLen(_)
SumLen(calls) ==
    IF calls = <<>> THEN 0 ELSE Len(Head(calls).result) + SumLen(Tail(calls))

\* the upload fails validation: no GrantID column, or more distinct trimmed
\* identifiers than the limit
InvalidUpload(file) ==
    \/ "GrantID" \notin file.columns
    \/ Cardinality(unique_grant_ids(SplitColumn(file.GrantID))) > GrantIdLimit

\* C1: an upload without the GrantID column or with more than 100 distinct
\* trimmed identifiers is rejected with an error, no dataset is returned and
\* no HTTP request is issued in that run; an upload with exactly 100 distinct
\* identifiers is accepted.
C1_InvalidUploadHaltsBeforeApi ==
    (Batch /\ pc # "start") =>
        /\ InvalidUpload(uploaded_file) =>
              /\ pc = "rejected"
              /\ df.none
              /\ errors >= 1
              /\ requests = 0
              /\ lastCall = NoCall
        /\ ~InvalidUpload(uploaded_file) => (~df.none /\ pc # "rejected")
        /\ uploaded_file = Big(GrantIdLimit) => ~df.none

C1_Witness ==
    /\ Batch
    /\ pc = "rejected"
    /\ "GrantID" \in uploaded_file.columns
    /\ Cardinality(unique_grant_ids(SplitColumn(uploaded_file.GrantID))) = GrantIdLimit + 1

\* C2: after a whole batch run the grant ids passed to the Funder Resolver are
\* exactly the distinct trimmed ids of the GrantID column, each passed exactly
\* once, and no (grant id, funder) pair is fetched twice.
C2_ResolverOncePerDistinctId ==
    (Batch /\ pc \in {"output", "done", "render_error"} /\ pos[1] > Len(df.rows)) =>
        /\ Range(resolverLog) = unique_grant_ids(df.rows)
        /\ \A i, j \in 1..Len(resolverLog) : resolverLog[i] = resolverLog[j] => i = j
        /\ \A i, j \in 1..Len(fetchLog) :
              (/\ fetchLog[i].grant_id = fetchLog[j].grant_id
               /\ fetchLog[i].funder_id = fetchLog[j].funder_id
               /\ fetchLog[i].funder_name = fetchLog[j].funder_name) => i = j

\* a body that is not a JSON object holding a results array
MalformedBody(body) ==
    \/ body.t \in {"invalid", "array"}
    \/ body.t = "object" /\ "results" \in DOMAIN body.d /\ body.d.results.t # "list"

\* the grant annotations of all works of a body with a results array
AnnotationsOf(body) ==
    LET works == Get(body.d, "results", JList(<<>>)).items
    IN  UNION {Range(Get(works[i], "grants", <<>>)) : i \in 1..Len(works)}

\* the annotations whose award id is gid and whose funder name is non-empty
Matching(body, gid) ==
    {a \in AnnotationsOf(body) :
        /\ "award_id" \in DOMAIN a /\ a.award_id = gid
        /\ "funder_display_name" \in DOMAIN a /\ a.funder_display_name # ""}

\* a matching annotation lacks its funder identifier
MissingFunderId(body, gid) ==
    /\ ~MalformedBody(body)
    /\ \E a \in Matching(body, gid) : "funder" \notin DOMAIN a

FailedResponse(call) ==
    /\ call.done
    /\ call.outcome.kind = "response"
    /\ \/ call.outcome.status # 200
       \/ MalformedBody(call.outcome.body)
       \/ /\ call.fn = "fetch_funders_for_grant"
          /\ MissingFunderId(call.outcome.body, call.grant_id)

C4_FailureIsolated ==
    (Batch /\ requests > 0 /\ pc \in {"uncaught", "output", "done", "render_error"}) =>
        /\ resolverLog = FlatIds(df.rows)
        /\ funders = <<>>
        /\ Len(publication_results) = Len(NonEmptyFetches)
        /\ \A i \in 1..Len(publication_results) :
              publication_results[i].Publications = NonEmptyFetches[i].result

\* C5: every record of every Result Set entry carries the funder name given
\* to the fetch call that produced it, whatever the response reports, and
\* every fetch call's (funder name, funder id) was returned by an earlier
\* Funder Resolver call on the same grant id.
C5_FunderFieldIsQueryFunder ==
    /\ Len(publication_results) = Len(NonEmptyFetches)
    /\ \A i \in 1..Len(publication_results) :
          LET entry == publication_results[i]
              call == NonEmptyFetches[i]
          IN  /\ entry.Publications = call.result
              /\ entry.Funder = call.funder_name
              /\ \A k \in 1..Len(entry.Publications) :
                    entry.Publications[k].funder_display_name = call.funder_name
    /\ \A i \in 1..Len(fetchLog) :
          <<fetchLog[i].grant_id, fetchLog[i].funder_name, fetchLog[i].funder_id>>
              \in resolved

C5_Witness ==
    /\ Manual
    /\ Len(publication_results) = 1
    /\ publication_results[1].Funder = "NSF"
    /\ lastCall.fn = "query_openalex"
    /\ lastCall.outcome = Ok(<<FullWork>>)
    /\ publication_results[1].Publications[1].funder_display_name = "NSF"
    /\ FullWork.grants[1].funder_display_name # "NSF"

\* the pairs the grant annotations of a well-formed body give for gid
ExpectedFunders(body, gid) ==
    {<<a.funder_display_name, a.funder>> : a \in Matching(body, gid)}

\* C6: for a successful well-formed response fetch_funders_for_grant returns
\* exactly the (name, funder id) pairs of the annotations whose award id is
\* the queried one and whose name is non-empty, each pair once.
C6_ResolverReturnsMatchingPairsOnce ==
    (/\ lastCall.done
     /\ lastCall.fn = "fetch_funders_for_grant"
     /\ lastCall.outcome.kind = "response"
     /\ lastCall.outcome.status = 200
     /\ ~MalformedBody(lastCall.outcome.body)
     /\ ~MissingFunderId(lastCall.outcome.body, lastCall.grant_id)) =>
        /\ Range(lastCall.result) = ExpectedFunders(lastCall.outcome.body, lastCall.grant_id)
        /\ Len(lastCall.result) = Cardinality(Range(lastCall.result))
        /\ ~lastCall.warned
        /\ ~lastCall.raised

C6_Witness ==
    /\ lastCall.done
    /\ lastCall.fn = "fetch_funders_for_grant"
    /\ lastCall.outcome = Ok(<<[grants |-> <<Grant(G1, "NSF", "F1")>>],
                               [grants |-> <<Grant(G1, "NSF", "F1")>>]>>)
    /\ lastCall.result = << <<"NSF", "F1">> >>

\* the value a record field must carry for a work: the work's own value, or
\* the sentinel when the work has none
FieldOrSentinel(work, key, sentinel) ==
    IF key \in DOMAIN work /\ work[key] # Null THEN work[key] ELSE Str(sentinel)

\* C7: every record query_openalex produces has the work's doi, title and
\* year, or "N/A", "Unknown Title", "Unknown" when the work has none, so that
\* no record carries a null doi, title or year.
C7_RecordFieldsNeverNull ==
    (/\ lastCall.done
     /\ lastCall.fn = "query_openalex"
     /\ lastCall.result # <<>>) =>
        \A i \in 1..Len(lastCall.result) :
            LET work == lastCall.outcome.body.d.results.items[i]
                rec == lastCall.result[i]
            IN  /\ rec.doi = FieldOrSentinel(work, "doi", "N/A")
                /\ rec.title = FieldOrSentinel(work, "title", "Unknown Title")
                /\ rec.publication_year = FieldOrSentinel(work, "publication_year", "Unknown")
                /\ rec.doi.t = "str"
                /\ rec.title.t = "str"

\* C8: every lookup call of the orchestration passes a grant id that is not
\* empty and has no leading or trailing whitespace.
C8_GrantIdArgumentNonEmptyTrimmed ==
    lastCall.done =>
        /\ lastCall.grant_id # <<>>
        /\ Head(lastCall.grant_id) \notin Whitespace
        /\ lastCall.grant_id[Len(lastCall.grant_id)] \notin Whitespace

\* C9: after a completed batch run the Result Set holds, in call order, one
\* entry for each fetch that returned a non-empty list and none for the
\* others, and the exported table has one row per record of those entries.
C9_ResultSetIsNonEmptyFetches ==
    (Batch /\ pc \in {"done", "render_error"}) =>
        /\ Len(publication_results) = Len(NonEmptyFetches)
        /\ \A i \in 1..Len(publication_results) :
              /\ publication_results[i].Publications = NonEmptyFetches[i].result
              /\ publication_results[i].Funder = NonEmptyFetches[i].funder_name
              /\ strip(publication_results[i].GrantID) = NonEmptyFetches[i].grant_id
        /\ Len(results_df) = SumLen(fetchLog)
        /\ results_df = Rows(publication_results)

C9_Witness ==
    /\ Batch
    /\ pc = "done"
    /\ Len(fetchLog) = 3
    /\ Len(publication_results) = 2
    /\ \E i \in 1..Len(fetchLog) : fetchLog[i].result = <<>> /\ fetchLog[i].failed
    /\ Len(results_df) = 2

\* C10: in manual mode every candidate the resolver returned can be selected:
\* for each candidate some selection makes the fetch use that candidate's
\* funder id, also when two candidates share a display name.
C10_EveryCandidateSelectable ==
    (Manual /\ pc = "select") =>
        \A i \in 1..Len(funders) :
            \E funder_selection \in RadioOptions(funders) :
                SelectedFunderId(funders, funder_selection) = funders[i][2]

====
